---- MODULE Spec2Model ----
(***************************************************************************)
(* Session state machine of the FTMS integration                           *)
(* (custom_components/ftms/session.py, class SessionTracker).              *)
(*                                                                         *)
(* One SessionTracker on one asyncio event loop.  Callbacks                *)
(* (on_coordinator_update, on_disconnect, the upload button) run to        *)
(* completion; coroutines (_idle_watchdog, _finish_and_upload,             *)
(* upload_last) run from one suspension point to the next.  The durable    *)
(* write of _finish_and_upload runs in an executor thread, so the file on  *)
(* disk passes through a created-but-unfinished stage that the loop        *)
(* thread can observe.                                                     *)
(*                                                                         *)
(* Time: every use of the loop clock in the code is a comparison           *)
(* now - t >= c or now - t < c with a stored time t, so each stored time   *)
(* is kept as its age now - t, in seconds, and stops growing at the first  *)
(* value beyond the constants it is compared with.  Tick lets TickStep     *)
(* seconds pass.  The loop clock is the monotonic clock, far beyond 30 s,  *)
(* so the time 0 that _reset stores has the largest age.  A                *)
(* _session_end_time whose cooldown is over is kept as NoEnd: the code     *)
(* treats it exactly as 0 (the next _check_workout_start sets it to 0).    *)
(*                                                                         *)
(* The session logic reads only the number of samples, so where the wall   *)
(* clock is not followed (utc_now = NoClock) a raw sample is kept as the   *)
(* fact that it was appended.  SampleSpec follows the wall clock, one      *)
(* second per event, and keeps every sample with its time, distance,       *)
(* speed and energy.                                                       *)
(*                                                                         *)
(* The tracker only exists when the Strava credentials are configured      *)
(* (__init__.py:121), so _uploader is always set.  The name template is    *)
(* taken to be a valid one.                                                *)
(*                                                                         *)
(* Specifications.  Spec is the tracker started with an empty workout      *)
(* directory; the upload it awaits is one step that returns one of the     *)
(* outcomes of StravaUploader.upload.  RetrySpec starts it with orphaned   *)
(* files, so that upload_pending (the startup retry pass) has files to     *)
(* attempt while one recording is made.  UploaderSpec is one               *)
(* StravaUploader (strava.py) through its calls of upload, request by      *)
(* request, with close and the expiry of its token; the tracker does not   *)
(* move in it.  FairSpec and UploaderFairSpec add that an awaited call     *)
(* returns.  SmoothSpec is one call of _smooth_trackpoints (tcx.py), stage *)
(* by stage, and the document generate_tcx builds from its result, for     *)
(* each list of a bounded set of lists of raw samples.  CallersSpec is     *)
(* the two coroutines that call upload on the one client (upload_pending   *)
(* and _do_upload), each followed through _ensure_token.                   *)
(*                                                                         *)
(* unsignalled is a history variable: the changes of state so far minus    *)
(* the notifications _set_state has sent for them.                         *)
(***************************************************************************)
EXTENDS Integers, Sequences, FiniteSets, TLC

\* ---------------------------------------------------------------- bounds
TickStep == 5
MaxSessions == 3
MaxTasks == 2
MaxPoints == 10
MaxPending == 2
\* recordings followed in a run that starts with orphaned files
RetrySessions == 1
\* telemetry events of a run in which the samples are followed field by field
MaxEvents == 14
\* the first events of such a run may carry distance, speed and energy
FieldEvents == 5
\* samples of an input of the smoother with any gaps and distances
MaxSamples == 4
\* samples of an input of the smoother recorded one per second
LongSamples == 12

\* ------------------------------------------------------ program constants
SESSION_START_COUNT == 3
SESSION_IDLE_TIMEOUT == 30
SESSION_MIN_POINTS == 10
COOLDOWN == 15
WATCHDOG_SLEEP == 10
\* None for _start_time / _last_tcx_path; sessions are numbered from 1
NoPath == 0
\* _session_end_time = 0: no cooldown pending
NoEnd == -1
\* ages stop growing here
IdleCap == SESSION_IDLE_TIMEOUT + 1
\* datetime.now(timezone.utc) is not followed: a sample is kept as the fact
\* that it was appended
NoClock == -1
\* _ensure_token, line 55: the validity a token must have left, in seconds
TOKEN_MARGIN == 60
\* _token_expires_at = 0 (lines 36, 104): no validity left
NoValidity == 0
\* tokens.get("refresh_token") when the response has none; the access token ""
NoToken == 0
\* _smooth_trackpoints, line 73: interval = 5.0
INTERVAL == 5

\* ------------------------------------------------------------ input sets
\* a field of an event is absent (<<>>) or present (<<v>>)
ElapsedValues == {0, 1}
DistanceValues == {0, 1}
SpeedValues == {1}
Opt(S) == {<<>>} \cup {<<v>> : v \in S}
Events == [event_id : {"update", "other"},
           elapsed : Opt(ElapsedValues),
           distance : Opt(DistanceValues),
           speed : Opt(SpeedValues),
           calories : {<<>>}]

\* the telemetry of a run that follows the samples: update events with the
\* elapsed time and any of distance, speed and energy
CaloriesValues == {1, 2}
SampleEvents == [event_id : {"update"},
                 elapsed : {<<1>>},
                 distance : Opt(DistanceValues),
                 speed : Opt(SpeedValues),
                 calories : Opt(CaloriesValues)]

\* how many samples of its k-th recording the model follows: the first
\* recording in full, a later one until its first sample
PointsIn(k) == IF k = 1 THEN MaxPoints ELSE 0

TaskIds == 1..MaxTasks
Paths == 1..MaxSessions
\* files left in the workout directory by earlier runs: older, so their
\* names sort before those of this run's sessions
OrphanPaths == (0 - MaxPending)..(-1)
AllPaths == OrphanPaths \cup Paths

VARIABLES
    state,               \* self.state
    trackpoints,         \* self._trackpoints
    start_time,          \* self._start_time (ordinal of the recording, NoPath = None)
    consecutive_active,  \* self._consecutive_active
    last_active_age,     \* now - self._last_active_time
    last_distance,       \* self._last_distance
    last_elapsed,        \* self._last_elapsed
    last_speed,          \* self._last_speed
    session_end_age,     \* now - self._session_end_time, NoEnd when that is 0
    last_tcx_path,       \* self._last_tcx_path
    nsessions,           \* recordings started so far (wall-clock start stamps are distinct)
    files,               \* durable storage: path -> "absent" | "partial" | "complete"
    tasks,               \* coroutines of the tracker and where each is suspended
    retry,               \* the upload_pending coroutine: where it is, the files it has
                         \* still to attempt (the first one is being attempted), and
                         \* history: the files it has attempted, in order
    has_data,            \* self._coordinator.data is not None
    unsignalled,         \* history: changes of self.state so far minus the calls of
                         \* _notify_entities that reached the listeners so far
    utc_now,             \* datetime.now(timezone.utc) as the number of events so far,
                         \*   NoClock in a run that does not follow it
    last_summary,        \* self._last_avg_speed, _last_total_distance_m and
                         \*   _last_total_seconds, with the recording and the number
                         \*   of samples they were computed from
    observed,            \* history: the samples of the update events handled in state
                         \*   recording since the last _start_recording
    encoded,             \* history: the recording and the samples last given to
                         \*   generate_tcx
    idle_run,            \* history: consecutive qualifying events the start detection has
                         \* processed since the last recording began
    since_last_end       \* history: time since the most recent session end
                         \* (NoEnd: none, or COOLDOWN seconds or more ago)

VARIABLES
    u_pc,                \* StravaUploader.upload: where the call is suspended
                         \*   "idle" no call in progress, "token" _ensure_token of line 94,
                         \*   "read" the read of the file, "submit" the POST of
                         \*   _upload_file, "poll" a status GET,
                         \*   "retoken" _ensure_token of line 105, "update" _update_activity
    u_attempt,           \* which call of _upload_file is running: 1 (line 97) or 2 (line 106)
    u_polls,             \* status polls made by the running _upload_file
    u_expires_in,        \* self._token_expires_at - time.time(), in seconds, as far as
                         \*   _ensure_token tells the values apart
    u_access_token,      \* self._access_token
    u_refresh_token,     \* self._refresh_token
    u_persisted,         \* the refresh token in the options of the config entry
    u_http,              \* self._http: "none" or "open"
    u_stale,             \* the running _upload_file holds a client that was closed
    u_closed,            \* history: close has been called
    u_callbacks,         \* history: calls of on_token_refresh made by this call of upload
    u_submissions,       \* history: file submissions made by this call of upload
    u_accepted,          \* history: which of them was the first to be accepted
                         \*   (an upload id was returned), 0 when none was yet
    u_refreshes,         \* history: token exchanges made by this call of upload
    u_result,            \* how the last call of upload ended ("running": not yet)
    u_answer             \* history: the last answer the client received

VARIABLES
    s_pc,                \* _smooth_trackpoints: the stage the call is about to run
                         \*   "trim", "interpolate", "downsample", "speeds", or
                         \*   "returned" (no call in progress); "encoded" when
                         \*   generate_tcx has built its document from the list
    s_input,             \* history: the list the call was given
    s_trackpoints,       \* its parameter trackpoints, rebound by stage 1
    s_result,            \* its local result, after the return the list returned
    s_tcx                \* history: the document generate_tcx built last

\* the smoother
svars == <<s_pc, s_input, s_trackpoints, s_result, s_tcx>>

\* no document
NoTcx == [activity_type |-> "", sport |-> "", track |-> <<>>]

VARIABLES
    c_pc,                \* for each caller of StravaUploader.upload on the one client,
                         \*   where its call is suspended: "idle" no call in progress,
                         \*   "exchange" the POST of _ensure_token, "upload" the rest
                         \*   of upload
    c_sent               \* for each caller, the refresh token its POST in flight
                         \*   carries (NoToken: none in flight)

\* the calls of upload that share the client
cvars == <<c_pc, c_sent>>

\* the upload client
tokvars == <<u_expires_in, u_access_token, u_refresh_token, u_persisted>>
httpvars == <<u_http, u_stale, u_closed>>
uvars == <<u_pc, u_attempt, u_polls, u_submissions, u_accepted, u_refreshes, u_result,
           u_answer, tokvars, httpvars, u_callbacks>>

\* the session tracker and its coordinator
tvars == <<state, trackpoints, start_time, consecutive_active, last_active_age,
           last_distance, last_elapsed, last_speed, session_end_age, last_tcx_path,
           nsessions, files, tasks, retry, has_data, unsignalled,
           idle_run, since_last_end, utc_now, last_summary, observed, encoded>>

vars == <<tvars, uvars, svars, cvars>>

recvars == <<trackpoints, start_time, consecutive_active, last_active_age,
             last_distance, last_elapsed, last_speed>>

\* ----------------------------------------------------------------- tasks
\* the cached summary before any recording was finished (0.0 each)
NoSummary == [of |-> NoPath, points |-> 0,
              speeds |-> <<0, 0>>, total_distance_m |-> 0, last_time |-> 0]

FreeTask == [kind |-> "none", pc |-> "free", wake |-> 0, path |-> NoPath, read |-> "none",
             summary |-> NoSummary]

IsFree(t) == tasks[t].pc = "free"
HasFree == \E t \in TaskIds : IsFree(t)
NewTask == CHOOSE t \in TaskIds : IsFree(t) /\ \A u \in TaskIds : u < t => ~IsFree(u)

\* a timer that is due: the loop runs it before more time passes
Urgent(t) == tasks[t].pc = "sleep" /\ tasks[t].wake = 0

\* _finish_and_upload is between its first statement and its return
Finishing(t) == tasks[t].kind \in {"watchdog", "finish"} /\ tasks[t].pc \in {"write", "writing", "upload"}

\* --------------------------------------------------------- retry pass
\* sorted(self._workout_dir.glob("*.tcx")): the names in S in ascending order
RECURSIVE Sorted(_)
Sorted(S) ==
    IF S = {} THEN <<>>
    ELSE LET m == CHOOSE x \in S : \A y \in S : x <= y
         IN <<m>> \o Sorted(S \ {m})

\* what the glob of upload_pending finds in storage f
Pending(f) == Sorted({p \in AllPaths : f[p] # "absent"})

\* upload_pending attempting the files of todo, its first being uploaded
\* (nothing left: the coroutine is over)
Attempt(todo, tried) ==
    IF todo = <<>>
    THEN [pc |-> "done", todo |-> <<>>, tried |-> tried]
    ELSE [pc |-> "upload", todo |-> todo, tried |-> Append(tried, Head(todo))]

\* ------------------------------------------------------------------ Init
\* the tracker as async_setup_entry leaves it, with n orphaned files in the
\* workout directory: constructed, upload_pending started and suspended in
\* the upload of the first orphaned file (over at once when there is none)
TInit(n) ==
    /\ state = "idle"
    /\ trackpoints = <<>>
    /\ start_time = NoPath
    /\ consecutive_active = 0
    /\ last_active_age = IdleCap
    /\ last_distance = 0
    /\ last_elapsed = -1
    /\ last_speed = 0
    /\ session_end_age = NoEnd
    /\ last_tcx_path = NoPath
    /\ nsessions = 0
    /\ files = [p \in AllPaths |-> IF p \in OrphanPaths /\ p >= 0 - n THEN "complete" ELSE "absent"]
    /\ tasks = [t \in TaskIds |-> FreeTask]
    /\ retry = Attempt(Pending(files), <<>>)
    /\ has_data = FALSE
    /\ unsignalled = 0
    /\ idle_run = 0
    /\ since_last_end = NoEnd
    /\ last_summary = NoSummary
    /\ observed = <<>>
    /\ encoded = [of |-> NoPath, samples |-> <<>>]

\* the upload client as StravaUploader.__init__ leaves it: no access token
UInit ==
    /\ u_pc = "idle"
    /\ u_attempt = 1
    /\ u_polls = 0
    /\ u_expires_in = NoValidity
    /\ u_access_token = NoToken
    /\ u_refresh_token = 1
    /\ u_persisted = 1
    /\ u_http = "none"
    /\ u_stale = FALSE
    /\ u_closed = FALSE
    /\ u_callbacks = 0
    /\ u_submissions = 0
    /\ u_accepted = 0
    /\ u_refreshes = 0
    /\ u_result = "no call"
    /\ u_answer = "none"

\* the coroutines that call self._uploader.upload: upload_pending, started
\* by async_setup_entry, and _do_upload, of an end of session or of the button
Callers == {"upload_pending", "_do_upload"}

\* no call of upload in progress
CInit ==
    /\ c_pc = [c \in Callers |-> "idle"]
    /\ c_sent = [c \in Callers |-> NoToken]

\* no call of the smoother in progress
SInit ==
    /\ s_pc = "returned"
    /\ s_input = <<>>
    /\ s_trackpoints = <<>>
    /\ s_result = <<>>
    /\ s_tcx = NoTcx

\* start with an empty workout directory
Init == TInit(0) /\ utc_now = NoClock /\ UInit /\ SInit /\ CInit

\* start with MaxPending files left by earlier runs
RetryInit == TInit(MaxPending) /\ utc_now = NoClock /\ UInit /\ SInit /\ CInit

\* start with an empty workout directory, the samples followed field by field
SampleInit == TInit(0) /\ utc_now = 0 /\ UInit /\ SInit /\ CInit

\* ------------------------------------------------------- pure helpers
Qualifies(e) == e.elapsed # <<>> /\ e.elapsed[1] > 0

InCooldown == session_end_age # NoEnd /\ session_end_age < COOLDOWN

IdleTimedOut(age) == age >= SESSION_IDLE_TIMEOUT

\* the comparison of _finish_recording with <= in place of <
TooFewPointsInclusive(tp) == Len(tp) <= SESSION_MIN_POINTS
\* _finish_recording, line 267
TooFewPoints(tp) == Len(tp) < SESSION_MIN_POINTS

\* _record_and_check_end, lines 219-233: the progress bookkeeping
NewActive(e) ==
    IF \/ e.elapsed # <<>> /\ e.elapsed[1] > last_elapsed
       \/ e.distance # <<>> /\ e.distance[1] > last_distance
    THEN 0 ELSE last_active_age
NewElapsed(e) == IF e.elapsed # <<>> THEN e.elapsed[1] ELSE last_elapsed
\* on_coordinator_update, lines 167-169
NewSpeed(e) == IF e.speed # <<>> THEN e.speed[1] ELSE last_speed
NewDistance(e) == IF e.distance # <<>> /\ e.distance[1] > 0 THEN e.distance[1] ELSE last_distance
\* _record_and_check_end, line 234: int(event_data.get(c.ENERGY_TOTAL, 0) or 0)
Calories(e) == IF e.calories # <<>> THEN e.calories[1] ELSE 0

\* the dict _record_and_check_end appends for an event
Sample(e) ==
    IF utc_now = NoClock
    THEN [event_id |-> e.event_id]
    ELSE [time |-> utc_now + 1,
          distance_m |-> NewDistance(e),
          speed_kmh |-> NewSpeed(e),
          calories |-> Calories(e)]

\* _record_and_check_end with the inline check before the append
WithoutSample(tp, sample) == tp
\* _record_and_check_end, lines 236-241: self._trackpoints.append
WithSample(tp, sample) == Append(tp, sample)

\* _finish_recording with the summary taken after _reset
SummaryAfterReset(tp, started) == NoSummary

RECURSIVE SumOf(_)
SumOf(seq) == IF seq = <<>> THEN 0 ELSE seq[1] + SumOf(Tail(seq))

\* _avg_speed: the positive speeds of the samples, as their sum and their
\* number (the average is the quotient, 0.0 when there is none)
PositiveSpeeds(tp) ==
    LET speeds == SelectSeq([i \in 1..Len(tp) |-> tp[i].speed_kmh], LAMBDA v : v > 0)
    IN <<SumOf(speeds), Len(speeds)>>

\* _finish_recording, lines 277-279 and 305-307: the summary of the samples
\* tp of the recording started; total_seconds is the time of the last
\* sample counted from the start of that recording
Summary(tp, started) ==
    IF utc_now = NoClock
    THEN [NoSummary EXCEPT !.of = started, !.points = Len(tp)]
    ELSE [of |-> started,
          points |-> Len(tp),
          speeds |-> PositiveSpeeds(tp),
          total_distance_m |-> tp[Len(tp)].distance_m,
          last_time |-> tp[Len(tp)].time]

\* _reset
Reset ==
    /\ trackpoints' = <<>>
    /\ start_time' = NoPath
    /\ consecutive_active' = 0
    /\ last_active_age' = IdleCap
    /\ last_speed' = 0
    /\ last_distance' = 0
    /\ last_elapsed' = -1

\* _finish_recording: what it does with the current samples
\*   "discard"  fewer than SESSION_MIN_POINTS samples: _reset, returns None
\*   "raise"    assert self._start_time is not None fails
\*   "encoded"  summary cached, _last_tcx_path set, _reset, returns (content, path)
FinishRecording(tp) ==
    IF TooFewPoints(tp) THEN "discard"
    ELSE IF start_time = NoPath THEN "raise"
    ELSE "encoded"

\* the recording fields as the running code sees them
Cur == [trackpoints |-> trackpoints, last_active_age |-> last_active_age,
        last_elapsed |-> last_elapsed, last_distance |-> last_distance,
        last_speed |-> last_speed]

\* ---------------------------------------------------------------- frames
\* the fields of the tracker other than the retry pass and the outputs
core == <<state, trackpoints, start_time, consecutive_active, last_active_age,
          last_distance, last_elapsed, last_speed, session_end_age, last_tcx_path,
          nsessions, files, tasks, idle_run, since_last_end>>

\* the step finishes no recording
NoEncode == UNCHANGED <<encoded, last_summary>>
\* the step handles no event and finishes no recording
NoSample == UNCHANGED <<utc_now, observed, encoded, last_summary>>

\* _notify_entities: the listeners of the coordinator are called when it has data
Notifies == has_data'

\* _set_state calls _notify_entities whatever the old value is
SetStateAlwaysNotifies(old, new) == TRUE
\* _set_state, line 147: it calls _notify_entities when the value changes
SetStateNotifies(old, new) == old # new

Count(b) == IF b THEN 1 ELSE 0

SetState(new) ==
    /\ state' = new
    /\ unsignalled' = unsignalled + Count(state # new)
                                  - Count(SetStateNotifies(state, new) /\ Notifies)

\* the step calls _set_state nowhere
Silent == UNCHANGED unsignalled

\* the step is none of the retry pass, of the upload client and of the smoother
NoUploadReturns == UNCHANGED <<retry, uvars, svars, cvars>>

\* ------------------------------------------------------------ telemetry
\* _start_recording.  hass.async_create_task starts the coroutine eagerly:
\* _idle_watchdog runs to its asyncio.sleep(10) inside the call.
StartRecording ==
    /\ nsessions < MaxSessions
    /\ HasFree
    /\ SetState("recording")
    /\ trackpoints' = <<>>
    /\ observed' = <<>>
    /\ start_time' = nsessions + 1
    /\ nsessions' = nsessions + 1
    /\ last_active_age' = 0
    /\ tasks' = [tasks EXCEPT ![NewTask] =
                   [FreeTask EXCEPT !.kind = "watchdog", !.pc = "sleep", !.wake = WATCHDOG_SLEEP]]
    /\ UNCHANGED <<last_distance, last_elapsed>>

\* _check_workout_start; on_coordinator_update has stored the speed of e
CheckWorkoutStart(e) ==
    /\ last_speed' = NewSpeed(e)
    /\ NoEncode
    /\ IF InCooldown
       THEN /\ Silent
            /\ UNCHANGED <<state, trackpoints, start_time, consecutive_active, last_active_age,
                           last_distance, last_elapsed, session_end_age, last_tcx_path,
                           nsessions, files, tasks, idle_run, since_last_end, observed>>
       ELSE
         /\ session_end_age' = NoEnd
         /\ idle_run' = IF ~Qualifies(e) \/ consecutive_active + 1 >= SESSION_START_COUNT
                        THEN 0 ELSE idle_run + 1
         /\ IF Qualifies(e)
            THEN /\ consecutive_active' = consecutive_active + 1
                 /\ IF consecutive_active + 1 >= SESSION_START_COUNT
                    THEN StartRecording
                    ELSE /\ Silent
                         /\ UNCHANGED <<state, trackpoints, start_time, nsessions, observed,
                                        last_active_age, tasks, last_distance, last_elapsed>>
            ELSE /\ consecutive_active' = 0
                 /\ Silent
                 /\ UNCHANGED <<state, trackpoints, start_time, nsessions, observed,
                                last_active_age, tasks, last_distance, last_elapsed>>
         /\ UNCHANGED <<last_tcx_path, files, since_last_end>>

\* ------------------------------------------------------- end of session
\* _finish_and_upload from its first statement to its first suspension,
\* run by task t (the watchdog itself, or the task the inline check creates,
\* which starts eagerly); cur holds the recording fields at the call
FinishAndUpload(t, cur) ==
    /\ session_end_age' = 0
    /\ since_last_end' = 0
    /\ CASE FinishRecording(cur.trackpoints) = "discard" ->
              /\ Reset
              /\ SetState("idle")
              /\ tasks' = [tasks EXCEPT ![t] = FreeTask]
              /\ NoEncode
              /\ UNCHANGED last_tcx_path
         [] FinishRecording(cur.trackpoints) = "raise" ->
              /\ trackpoints' = cur.trackpoints
              /\ last_active_age' = cur.last_active_age
              /\ last_elapsed' = cur.last_elapsed
              /\ last_distance' = cur.last_distance
              /\ last_speed' = cur.last_speed
              /\ tasks' = [tasks EXCEPT ![t] = FreeTask]
              /\ Silent
              /\ NoEncode
              /\ UNCHANGED <<state, start_time, consecutive_active, last_tcx_path>>
         [] FinishRecording(cur.trackpoints) = "encoded" ->
              /\ encoded' = [of |-> start_time, samples |-> cur.trackpoints]
              /\ last_summary' = Summary(cur.trackpoints, start_time)
              /\ last_tcx_path' = start_time
              /\ Reset
              /\ tasks' = [tasks EXCEPT ![t] =
                             [FreeTask EXCEPT !.kind = IF IsFree(t) THEN "finish" ELSE tasks[t].kind,
                                              !.pc = "write", !.path = start_time]]
              /\ Silent
              /\ UNCHANGED state
    /\ UNCHANGED <<nsessions, files, idle_run>>

\* _record_and_check_end
RecordAndCheckEnd(e) ==
    /\ Len(trackpoints) < PointsIn(nsessions)
    /\ observed' = Append(observed, Sample(e))
    /\ LET cur == [trackpoints |-> WithSample(trackpoints, Sample(e)),
                   last_active_age |-> NewActive(e),
                   last_elapsed |-> NewElapsed(e),
                   last_distance |-> NewDistance(e),
                   last_speed |-> NewSpeed(e)]
       IN IF IdleTimedOut(cur.last_active_age)
          THEN HasFree /\ FinishAndUpload(NewTask, cur)
          ELSE /\ trackpoints' = cur.trackpoints
               /\ last_active_age' = cur.last_active_age
               /\ last_elapsed' = cur.last_elapsed
               /\ last_distance' = cur.last_distance
               /\ last_speed' = cur.last_speed
               /\ Silent
               /\ NoEncode
               /\ UNCHANGED <<state, start_time, consecutive_active, session_end_age,
                              last_tcx_path, nsessions, files, tasks, idle_run,
                              since_last_end>>

\* DataCoordinator._on_ftms_event: the coordinator takes the data, then
\* on_coordinator_update
OnCoordinatorUpdate(e) ==
    /\ has_data' = TRUE
    /\ utc_now' = IF utc_now = NoClock THEN NoClock ELSE utc_now + 1
    /\ NoUploadReturns
    /\ IF e.event_id # "update" THEN Silent /\ NoEncode /\ UNCHANGED <<core, observed>>
       ELSE IF state = "idle" THEN CheckWorkoutStart(e)
       ELSE IF state = "recording" THEN RecordAndCheckEnd(e)
       ELSE /\ last_speed' = NewSpeed(e)
            /\ Silent
            /\ NoEncode
            /\ UNCHANGED observed
            /\ UNCHANGED <<state, trackpoints, start_time, consecutive_active, last_active_age,
                           last_distance, last_elapsed, session_end_age, last_tcx_path,
                           nsessions, files, tasks, idle_run, since_last_end>>

\* _idle_watchdog: asyncio.sleep(10) is over
WatchdogWake(t) ==
    /\ tasks[t].pc = "sleep"
    /\ tasks[t].wake = 0
    /\ UNCHANGED <<has_data, utc_now, observed>>
    /\ NoUploadReturns
    /\ IF state # "recording"
       THEN /\ tasks' = [tasks EXCEPT ![t] = FreeTask]
            /\ Silent
            /\ NoEncode
            /\ UNCHANGED <<state, recvars, session_end_age, last_tcx_path,
                           nsessions, files, idle_run, since_last_end>>
       ELSE IF IdleTimedOut(last_active_age)
       THEN FinishAndUpload(t, Cur)
       ELSE /\ tasks' = [tasks EXCEPT ![t] = [@ EXCEPT !.wake = WATCHDOG_SLEEP]]
            /\ Silent
            /\ NoEncode
            /\ UNCHANGED <<state, recvars, session_end_age, last_tcx_path,
                           nsessions, files, idle_run, since_last_end>>

\* _do_upload up to the call of self._uploader.upload
DoUpload(t, p) ==
    /\ SetState("uploading")
    /\ tasks' = [tasks EXCEPT ![t] = [@ EXCEPT !.pc = "upload", !.path = p, !.read = files'[p],
                                                !.summary = last_summary]]

\* _write_tcx in the executor thread: path.write_text has created the file
WriteOpen(t) ==
    /\ tasks[t].pc = "write"
    /\ UNCHANGED has_data
    /\ NoUploadReturns
    /\ NoSample
    /\ Silent
    /\ files' = [files EXCEPT ![tasks[t].path] = "partial"]
    /\ tasks' = [tasks EXCEPT ![t] = [@ EXCEPT !.pc = "writing"]]
    /\ UNCHANGED <<state, recvars, session_end_age, last_tcx_path,
                   nsessions, idle_run, since_last_end>>

\* _write_tcx has written everything; _finish_and_upload resumes and calls _do_upload
WriteDone(t) ==
    /\ tasks[t].pc = "writing"
    /\ UNCHANGED has_data
    /\ NoUploadReturns
    /\ NoSample
    /\ files' = [files EXCEPT ![tasks[t].path] = IF @ = "absent" THEN "absent" ELSE "complete"]
    /\ DoUpload(t, tasks[t].path)
    /\ UNCHANGED <<recvars, session_end_age, last_tcx_path,
                   nsessions, idle_run, since_last_end>>

\* _write_tcx raises (mkdir or open fails, or the write fails half way):
\* the exception leaves _finish_and_upload at the await
WriteFails(t) ==
    /\ tasks[t].pc \in {"write", "writing"}
    /\ UNCHANGED has_data
    /\ NoUploadReturns
    /\ NoSample
    /\ Silent
    /\ tasks' = [tasks EXCEPT ![t] = FreeTask]
    /\ UNCHANGED <<state, recvars, session_end_age, last_tcx_path,
                   nsessions, files, idle_run, since_last_end>>

\* how a call of self._uploader.upload ends: with an activity URL ("url"),
\* with None ("duplicate", "error", "timeout": what the status polls came to;
\* "conflict": the request was answered 409) or with an exception ("raise")
Outcomes == {"url", "duplicate", "conflict", "error", "timeout", "raise"}

\* _do_upload, lines 370-374: the file is removed when upload gave a URL
DoUploadKeepsAll(outcome) == FALSE
DoUploadDeletes(outcome) == outcome = "url"

\* upload_pending, lines 442-445: the file is removed unless upload raised
PendingDeletesAlways(outcome) == TRUE
PendingDeletes(outcome) == outcome # "raise"

\* _do_upload without its except clause: an exception of upload leaves the
\* coroutine before the caller's set_state("idle")
UploadReturnsUncaught(t, outcome) ==
    /\ tasks[t].pc = "upload"
    /\ UNCHANGED has_data
    /\ UNCHANGED <<retry, uvars, svars, cvars>>
    /\ NoSample
    /\ IF DoUploadDeletes(outcome)
       THEN /\ files' = [files EXCEPT ![tasks[t].path] = "absent"]
            /\ last_tcx_path' = NoPath
       ELSE UNCHANGED <<files, last_tcx_path>>
    /\ IF outcome = "raise" THEN Silent /\ UNCHANGED state ELSE SetState("idle")
    /\ tasks' = [tasks EXCEPT ![t] = FreeTask]
    /\ UNCHANGED <<recvars, session_end_age, nsessions, idle_run, since_last_end>>
\* self._uploader.upload called by _do_upload returns or raises; then the
\* caller's set_state("idle")
UploadReturns(t, outcome) ==
    /\ tasks[t].pc = "upload"
    /\ UNCHANGED has_data
    /\ UNCHANGED <<retry, uvars, svars, cvars>>
    /\ NoSample
    /\ IF DoUploadDeletes(outcome)
       THEN /\ files' = [files EXCEPT ![tasks[t].path] = "absent"]
            /\ last_tcx_path' = NoPath
       ELSE UNCHANGED <<files, last_tcx_path>>
    /\ SetState("idle")
    /\ tasks' = [tasks EXCEPT ![t] = FreeTask]
    /\ UNCHANGED <<recvars, session_end_age, nsessions, idle_run, since_last_end>>

\* ------------------------------------------------------------ retry pass
\* upload_pending: the upload of the file it is attempting returns or raises;
\* the loop goes on to the next file or breaks
PendingStops(outcome) == outcome = "raise"

PendingReturns(outcome) ==
    /\ retry.pc = "upload"
    /\ UNCHANGED <<has_data, uvars, svars, cvars>>
    /\ NoSample
    /\ Silent
    /\ files' = IF PendingDeletes(outcome)
                THEN [files EXCEPT ![Head(retry.todo)] = "absent"]
                ELSE files
    /\ retry' = IF PendingStops(outcome)
                THEN [retry EXCEPT !.pc = "done"]
                ELSE Attempt(Tail(retry.todo), retry.tried)
    /\ UNCHANGED <<state, recvars, session_end_age, last_tcx_path, nsessions, tasks,
                   idle_run, since_last_end>>

\* ------------------------------------------------------------ disconnect
\* on_disconnect; the write is synchronous and ok says how it went:
\*   "ok" written, "early" failed before the file existed, "late" failed half way
WriteResults == {"ok", "early", "late"}
OnDisconnect(ok) ==
    /\ UNCHANGED <<has_data, utc_now, observed>>
    /\ NoUploadReturns
    /\ IF state # "recording" THEN Silent /\ NoEncode /\ UNCHANGED core
       ELSE /\ since_last_end' = 0
            /\ CASE FinishRecording(trackpoints) = "discard" ->
                      /\ Reset
                      /\ SetState("idle")
                      /\ NoEncode
                      /\ UNCHANGED <<last_tcx_path, files>>
                 [] FinishRecording(trackpoints) = "raise" ->
                      /\ Silent
                      /\ NoEncode
                      /\ UNCHANGED <<state, recvars, last_tcx_path, files>>
                 [] FinishRecording(trackpoints) = "encoded" ->
                      /\ encoded' = [of |-> start_time, samples |-> trackpoints]
                      /\ last_summary' = Summary(trackpoints, start_time)
                      /\ last_tcx_path' = start_time
                      /\ Reset
                      /\ files' = [files EXCEPT ![start_time] =
                                      CASE ok = "ok" -> "complete"
                                        [] ok = "late" -> "partial"
                                        [] OTHER -> @]
                      /\ IF ok = "ok" THEN SetState("idle") ELSE Silent /\ UNCHANGED state
            /\ UNCHANGED <<session_end_age, nsessions, tasks, idle_run>>

\* ---------------------------------------------------------- manual upload
\* upload_last, from the button press to the call of self._uploader.upload
UploadLast ==
    /\ UNCHANGED has_data
    /\ NoUploadReturns
    /\ NoSample
    /\ IF last_tcx_path = NoPath \/ files[last_tcx_path] = "absent"
       THEN Silent /\ UNCHANGED core
       ELSE /\ HasFree
            /\ SetState("uploading")
            /\ tasks' = [tasks EXCEPT ![NewTask] =
                           [kind |-> "manual", pc |-> "upload", wake |-> 0,
                            path |-> last_tcx_path, read |-> files[last_tcx_path],
                            summary |-> last_summary]]
            /\ UNCHANGED <<recvars, session_end_age, last_tcx_path,
                           nsessions, files, idle_run, since_last_end>>

\* ------------------------------------------------------------------ time
Older(age, cap) == IF age + TickStep > cap THEN cap ELSE age + TickStep
Cooling(age) == IF age = NoEnd \/ age + TickStep >= COOLDOWN THEN NoEnd ELSE age + TickStep
Sooner(wake) == IF wake > TickStep THEN wake - TickStep ELSE 0

Tick ==
    /\ \A t \in TaskIds : ~Urgent(t)
    /\ UNCHANGED has_data
    /\ NoUploadReturns
    /\ NoSample
    /\ Silent
    /\ last_active_age' = Older(last_active_age, IdleCap)
    /\ session_end_age' = Cooling(session_end_age)
    /\ since_last_end' = Cooling(since_last_end)
    /\ tasks' = [t \in TaskIds |-> [tasks[t] EXCEPT !.wake = Sooner(@)]]
    /\ UNCHANGED <<state, trackpoints, start_time, consecutive_active, last_distance,
                   last_elapsed, last_speed, last_tcx_path, nsessions, files, idle_run>>

Next ==
    \/ \E e \in Events : OnCoordinatorUpdate(e)
    \/ \E t \in TaskIds : WatchdogWake(t)
    \/ \E t \in TaskIds : WriteOpen(t)
    \/ \E t \in TaskIds : WriteDone(t)
    \/ \E t \in TaskIds : WriteFails(t)
    \/ \E t \in TaskIds, o \in Outcomes : UploadReturns(t, o)
    \/ \E r \in WriteResults : OnDisconnect(r)
    \/ UploadLast
    \/ Tick

Spec == Init /\ [][Next]_vars

\* the tracker next to the retry pass over the orphaned files: RetrySessions
\* recordings, the telemetry that of a machine reporting its elapsed time only
RetryEvents == {e \in Events : e.event_id = "update" /\ Qualifies(e)
                                /\ e.distance = <<>> /\ e.speed = <<>>}

RetryNext ==
    \/ \E o \in Outcomes : PendingReturns(o)
    \/ \E e \in RetryEvents : OnCoordinatorUpdate(e) /\ nsessions' <= RetrySessions
    \/ \E t \in TaskIds : WatchdogWake(t)
    \/ \E t \in TaskIds : WriteOpen(t)
    \/ \E t \in TaskIds : WriteDone(t)
    \/ \E t \in TaskIds : WriteFails(t)
    \/ \E t \in TaskIds, o \in Outcomes : UploadReturns(t, o)
    \/ \E r \in WriteResults : OnDisconnect(r)
    \/ UploadLast
    \/ Tick

RetrySpec == RetryInit /\ [][RetryNext]_vars

\* the tracker with the samples followed field by field: MaxEvents events,
\* the first FieldEvents of them with any of distance, speed and energy
SampleNext ==
    \/ \E e \in SampleEvents :
          /\ utc_now < MaxEvents
          /\ utc_now >= FieldEvents =>
                e.distance = <<>> /\ e.speed = <<>> /\ e.calories = <<>>
          /\ OnCoordinatorUpdate(e)
    \/ \E t \in TaskIds : WatchdogWake(t)
    \/ \E t \in TaskIds : WriteOpen(t)
    \/ \E t \in TaskIds : WriteDone(t)
    \/ \E t \in TaskIds : WriteFails(t)
    \/ \E t \in TaskIds, o \in Outcomes : UploadReturns(t, o)
    \/ \E r \in WriteResults : OnDisconnect(r)
    \/ UploadLast
    \/ Tick

SampleSpec == SampleInit /\ [][SampleNext]_vars

\* Every call of self._uploader.upload returns or raises: the client polls at
\* most 30 times and its HTTP client has a timeout.
FairSpec ==
    /\ Spec
    /\ \A t \in TaskIds : WF_vars(\E o \in Outcomes : UploadReturns(t, o))

\* =========================================================== upload client
\* StravaUploader.upload (strava.py), one call at a time, each network call
\* answered by the environment.

\* range(30) of _upload_file
MaxPolls == 30

\* answers to a request: HTTP status codes that raise_for_status turns into
\* HTTPStatusError, "net" for any other exception (connection error, timeout,
\* unreadable answer)
Failures == {"401", "409", "429", "500", "net"}
\* answers to the token exchange: done, request failed, or the new refresh
\* token could not be stored (on_token_refresh raises)
TokenAnswers == {"ok", "fail", "unsaved"}
\* what a status poll reports: nothing final yet, an activity id, an error
\* containing "duplicate", another error
Statuses == {"pending", "activity", "duplicate", "error"}
\* answers to the PUT of _update_activity: any status code, or an exception
UpdateAnswers == {"200", "500", "net"}

\* seconds of validity a token can have left: none, the margin, more
Validities == {NoValidity, TOKEN_MARGIN, TOKEN_MARGIN + 1}
AccessTokens == {1, 2}
RefreshTokens == {1, 2}
\* the body of a successful token exchange: access_token, expires_at (as the
\* validity it leaves) and refresh_token, which may be missing
Responses == [access : AccessTokens,
              lifetime : Validities \ {NoValidity},
              refresh : RefreshTokens \cup {NoToken}]

\* _ensure_token, line 55, with >= for <
TokenFreshInclusive(left) == left >= TOKEN_MARGIN
\* _ensure_token, line 55: time.time() < self._token_expires_at - 60
TokenFresh(left) == left > TOKEN_MARGIN

u_token_ok == TokenFresh(u_expires_in)

\* _ensure_token, line 76, without the comparison
RotatesAlways(new, held) == new # NoToken
\* _ensure_token, line 76: new_refresh and new_refresh != self._refresh_token
Rotates(new, held) == new # NoToken /\ new # held

\* the call ends: upload returns or raises
Ends(result) ==
    /\ u_pc' = "idle"
    /\ u_result' = result

\* _upload_file starts: the file is read in the executor
StartUploadFile(attempt) ==
    /\ u_pc' = "read"
    /\ u_attempt' = attempt
    /\ u_polls' = 0

\* self._get_client(): the client in use, made anew when there is none
GetClient ==
    /\ u_http' = "open"
    /\ u_stale' = FALSE
    /\ UNCHANGED u_closed

\* the except clause of upload, lines 98-116, for an exception of the first
\* _upload_file; one of the second _upload_file (line 106) is not caught
RetriesOn401And429(code) == code \in {"401", "429"}
RetriesOn(code) == code = "401"

RetriesAgain(attempt) == TRUE
CaughtIn(attempt) == attempt = 1

Fails(code) ==
    /\ UNCHANGED <<u_access_token, u_refresh_token, u_persisted, u_callbacks>>
    /\ IF CaughtIn(u_attempt) /\ RetriesOn(code)
       THEN /\ u_expires_in' = NoValidity
            /\ u_pc' = "retoken"
            /\ u_refreshes' = u_refreshes + 1
            /\ GetClient
            /\ UNCHANGED <<u_attempt, u_polls, u_submissions, u_result>>
       ELSE /\ Ends(IF CaughtIn(u_attempt) /\ code = "409" THEN "conflict" ELSE "raise")
            /\ UNCHANGED <<u_attempt, u_polls, u_expires_in, u_submissions, u_refreshes,
                           httpvars>>

\* upload is called; _ensure_token returns at once or starts the exchange
Upload ==
    /\ u_pc = "idle"
    /\ u_result' = "running"
    /\ u_submissions' = 0
    /\ u_accepted' = 0
    /\ u_callbacks' = 0
    /\ IF u_token_ok
       THEN /\ StartUploadFile(1)
            /\ u_refreshes' = 0
            /\ UNCHANGED httpvars
       ELSE /\ u_pc' = "token"
            /\ u_attempt' = 1
            /\ u_polls' = 0
            /\ u_refreshes' = 1
            /\ GetClient
    /\ UNCHANGED <<tokvars, u_answer, tvars, svars, cvars>>

\* _ensure_token with the call of on_token_refresh inside try ... except
EnsureTokenRaisesOnFail(answer) == answer = "fail"
\* _ensure_token raises what raise_for_status, the reading of the body and
\* on_token_refresh raise (lines 68-78: nothing is caught)
EnsureTokenRaises(answer) == answer # "ok"

\* _ensure_token: the token exchange is answered, with the body resp when the
\* status is good
TokenReturns(answer, resp) ==
    /\ u_pc \in {"token", "retoken"}
    /\ answer = "unsaved" => Rotates(resp.refresh, u_refresh_token)
    /\ u_answer' = answer
    /\ IF answer = "fail"
       THEN UNCHANGED <<tokvars, u_callbacks>>
       ELSE /\ u_access_token' = resp.access
            /\ u_expires_in' = resp.lifetime
            /\ IF Rotates(resp.refresh, u_refresh_token)
               THEN /\ u_refresh_token' = resp.refresh
                    /\ u_callbacks' = u_callbacks + 1
                    /\ u_persisted' = IF answer = "ok" THEN resp.refresh ELSE u_persisted
               ELSE UNCHANGED <<u_refresh_token, u_callbacks, u_persisted>>
    /\ IF ~EnsureTokenRaises(answer)
       THEN /\ StartUploadFile(IF u_pc = "token" THEN 1 ELSE 2)
            /\ UNCHANGED u_result
       ELSE /\ Ends("raise")
            /\ UNCHANGED <<u_attempt, u_polls>>
    /\ UNCHANGED <<u_submissions, u_accepted, u_refreshes, httpvars, tvars, svars, cvars>>

\* _upload_file: tcx_path.read_bytes returns and the file is submitted, or raises
ReadReturns(ok) ==
    /\ u_pc = "read"
    /\ u_answer' = IF ok THEN "ok" ELSE "net"
    /\ IF ok
       THEN /\ u_pc' = "submit"
            /\ u_submissions' = u_submissions + 1
            /\ GetClient
            /\ UNCHANGED <<u_attempt, u_polls, tokvars, u_callbacks, u_refreshes, u_result>>
       ELSE Fails("net")
    /\ UNCHANGED <<u_accepted, tvars, svars, cvars>>

\* _upload_file: the submission is answered; accepted, the first poll follows,
\* which a client closed in the meantime refuses to send
SubmitReturns(answer) ==
    /\ u_pc = "submit"
    /\ u_answer' = answer
    /\ u_accepted' = IF answer = "200" /\ u_accepted = 0 THEN u_submissions ELSE u_accepted
    /\ IF answer = "200"
       THEN IF u_stale
            THEN Fails("net")
            ELSE /\ u_pc' = "poll"
                 /\ u_polls' = 1
                 /\ UNCHANGED <<u_attempt, tokvars, u_callbacks, u_submissions,
                                u_refreshes, u_result, httpvars>>
       ELSE Fails(answer)
    /\ UNCHANGED <<tvars, svars, cvars>>

\* the polling loop of _upload_file goes round after a status that is not final
PollsOnceMore(polls) == polls <= MaxPolls
PollsAgain(polls) == polls < MaxPolls

\* _upload_file: a status poll is answered
PollReturns(answer) ==
    /\ u_pc = "poll"
    /\ u_answer' = answer
    /\ CASE answer \in Failures -> Fails(answer) /\ UNCHANGED u_accepted
         [] answer = "activity" ->
              /\ u_pc' = "update"
              /\ GetClient
              /\ UNCHANGED <<u_attempt, u_polls, tokvars, u_callbacks, u_submissions, u_accepted,
                             u_refreshes, u_result>>
         [] answer \in {"duplicate", "error"} ->
              /\ Ends(answer)
              /\ UNCHANGED <<u_attempt, u_polls, tokvars, u_callbacks, u_submissions, u_accepted,
                             u_refreshes, httpvars>>
         [] answer = "pending" ->
              IF PollsAgain(u_polls)
              THEN IF u_stale
                   THEN Fails("net") /\ UNCHANGED u_accepted
                   ELSE /\ u_polls' = u_polls + 1
                        /\ UNCHANGED <<u_pc, u_attempt, tokvars, u_callbacks, u_submissions, u_accepted,
                                       u_refreshes, u_result, httpvars>>
              ELSE /\ Ends("timeout")
                   /\ UNCHANGED <<u_attempt, u_polls, tokvars, u_callbacks, u_submissions, u_accepted,
                                  u_refreshes, httpvars>>
    /\ UNCHANGED <<tvars, svars, cvars>>

\* _update_activity with raise_for_status after the PUT
UpdateRaisesOnStatus(answer) == answer # "200"
\* _update_activity: the PUT raises; a status other than 200 is only logged
UpdateRaises(answer) == answer = "net"

\* _update_activity: the PUT is answered; upload returns the URL
UpdateReturns(answer) ==
    /\ u_pc = "update"
    /\ u_answer' = answer
    /\ Ends(IF UpdateRaises(answer) THEN "raise" ELSE "url")
    /\ UNCHANGED <<u_attempt, u_polls, tokvars, u_callbacks, u_submissions, u_accepted, u_refreshes,
                   httpvars, tvars, svars, cvars>>

\* time passes: the access token has less validity left
TokenExpires ==
    /\ \E left \in Validities : /\ left < u_expires_in
                                /\ u_expires_in' = left
    /\ UNCHANGED <<u_pc, u_attempt, u_polls, u_submissions, u_accepted, u_refreshes, u_result,
                   u_answer, u_access_token, u_refresh_token, u_persisted, u_callbacks,
                   httpvars, tvars, svars, cvars>>

\* close: the client is closed and forgotten; a running _upload_file keeps
\* the closed client in its local variable
Close ==
    /\ u_closed' = TRUE
    /\ IF u_http = "open"
       THEN /\ u_http' = "none"
            /\ u_stale' = (u_pc \in {"submit", "poll"})
       ELSE UNCHANGED <<u_http, u_stale>>
    /\ UNCHANGED <<u_pc, u_attempt, u_polls, u_submissions, u_accepted, u_refreshes, u_result,
                   u_answer, tokvars, u_callbacks, tvars, svars, cvars>>

UNext ==
    \/ Upload
    \/ \E a \in TokenAnswers, r \in Responses : TokenReturns(a, r)
    \/ \E ok \in BOOLEAN : ReadReturns(ok)
    \/ \E a \in Failures \cup {"200"} : SubmitReturns(a)
    \/ \E a \in Failures \cup Statuses : PollReturns(a)
    \/ \E a \in UpdateAnswers : UpdateReturns(a)
    \/ TokenExpires
    \/ Close

UploaderSpec == Init /\ [][UNext]_vars

\* every network call and every executor job of the client returns
\* (httpx.AsyncClient(timeout=60))
UploaderFairSpec ==
    /\ UploaderSpec
    /\ WF_vars(\E a \in TokenAnswers, r \in Responses : TokenReturns(a, r))
    /\ WF_vars(\E ok \in BOOLEAN : ReadReturns(ok))
    /\ WF_vars(\E a \in Failures \cup {"200"} : SubmitReturns(a))
    /\ WF_vars(\E a \in Failures \cup Statuses : PollReturns(a))
    /\ WF_vars(\E a \in UpdateAnswers : UpdateReturns(a))

\* ------------------------------------------------- calls sharing the client
\* upload_pending and _do_upload call upload on the same StravaUploader; each
\* call is followed through _ensure_token, the rest of upload is one step.

\* _ensure_token, lines 55-67: returns at once, or posts the refresh token;
\* nothing makes a caller wait for an exchange in flight
EnsureToken(c) ==
    IF TokenFresh(u_expires_in)
    THEN /\ c_pc' = [c_pc EXCEPT ![c] = "upload"]
         /\ UNCHANGED c_sent
    ELSE /\ c_pc' = [c_pc EXCEPT ![c] = "exchange"]
         /\ c_sent' = [c_sent EXCEPT ![c] = u_refresh_token]

\* upload is called by c (line 94)
CallerUploads(c) ==
    /\ c_pc[c] = "idle"
    /\ EnsureToken(c)
    /\ UNCHANGED <<tvars, uvars, svars>>

\* the exchange of c is answered (lines 68-79)
ExchangeReturns(c, answer, resp) ==
    /\ c_pc[c] = "exchange"
    /\ answer = "unsaved" => Rotates(resp.refresh, u_refresh_token)
    /\ c_sent' = [c_sent EXCEPT ![c] = NoToken]
    /\ IF answer = "fail"
       THEN UNCHANGED tokvars
       ELSE /\ u_access_token' = resp.access
            /\ u_expires_in' = resp.lifetime
            /\ IF Rotates(resp.refresh, u_refresh_token)
               THEN /\ u_refresh_token' = resp.refresh
                    /\ u_persisted' = IF answer = "ok" THEN resp.refresh ELSE u_persisted
               ELSE UNCHANGED <<u_refresh_token, u_persisted>>
    /\ c_pc' = [c_pc EXCEPT ![c] = IF EnsureTokenRaises(answer) THEN "idle" ELSE "upload"]
    /\ UNCHANGED <<u_pc, u_attempt, u_polls, u_submissions, u_accepted, u_refreshes,
                   u_result, u_answer, u_callbacks, httpvars, tvars, svars>>

\* the rest of upload for c: it ends, or a 401 for the first submission
\* forces the token exchange of lines 104-105
CallerReturns(c, code) ==
    /\ c_pc[c] = "upload"
    /\ IF RetriesOn(code)
       THEN /\ u_expires_in' = NoValidity
            /\ c_pc' = [c_pc EXCEPT ![c] = "exchange"]
            /\ c_sent' = [c_sent EXCEPT ![c] = u_refresh_token]
       ELSE /\ c_pc' = [c_pc EXCEPT ![c] = "idle"]
            /\ UNCHANGED <<c_sent, u_expires_in>>
    /\ UNCHANGED <<u_pc, u_attempt, u_polls, u_submissions, u_accepted, u_refreshes,
                   u_result, u_answer, u_callbacks, u_access_token, u_refresh_token,
                   u_persisted, httpvars, tvars, svars>>

\* time passes: the access token has less validity left
ValidityRunsOut ==
    /\ \E left \in Validities : /\ left < u_expires_in
                                /\ u_expires_in' = left
    /\ UNCHANGED <<u_pc, u_attempt, u_polls, u_submissions, u_accepted, u_refreshes,
                   u_result, u_answer, u_callbacks, u_access_token, u_refresh_token,
                   u_persisted, httpvars, tvars, svars, cvars>>

CallersNext ==
    \/ \E c \in Callers : CallerUploads(c)
    \/ \E c \in Callers, a \in TokenAnswers, r \in Responses : ExchangeReturns(c, a, r)
    \/ \E c \in Callers, code \in Failures \cup {"200"} : CallerReturns(c, code)
    \/ ValidityRunsOut

CallersSpec == Init /\ [][CallersNext]_vars

\* ------------------------------------------------------------- smoother
\* _smooth_trackpoints (tcx.py), one step per stage. A distance or a speed
\* is a float in the code and the quotient <<n, d>> of two integers, d > 0,
\* here; a time is a whole number of seconds.
Whole(n) == <<n, 1>>
FracEq(a, b) == a[1] * b[2] = b[1] * a[2]
FracLess(a, b) == a[1] * b[2] < b[1] * a[2]

\* the lists the smoother is given: the raw samples of a recording
Gaps == {1, INTERVAL, INTERVAL + 1}
Increments == {0, 1, 10}
RawSample(t, d) == [time |-> t, distance_m |-> Whole(d), speed_kmh |-> Whole(1)]

\* n samples, the first at time 0; steps[i] is the time passed since sample
\* i - 1 and the distance covered since then
Recorded(n, steps) ==
    [i \in 1..n |->
        RawSample(SumOf([k \in 1..i |-> IF k = 1 THEN 0 ELSE steps[k][1]]),
                  SumOf([k \in 1..i |-> steps[k][2]]))]

Inputs(n, gaps, incs) == {Recorded(n, steps) : steps \in [1..n -> gaps \X incs]}

\* up to short samples with any gaps, long samples one per second
SmoothInputs(short, long) ==
    UNION {Inputs(n, Gaps, Increments) : n \in 0..short}
        \cup Inputs(long, {1}, {0, 1})

\* stage 1, lines 36-40: the index of the first sample with a distance above
\* 0, the first index when there is none
FirstNonzero(tp) ==
    IF \E i \in 1..Len(tp) : tp[i].distance_m[1] > 0
    THEN CHOOSE i \in 1..Len(tp) :
            /\ tp[i].distance_m[1] > 0
            /\ \A j \in 1..(i - 1) : ~(tp[j].distance_m[1] > 0)
    ELSE 1

\* stage 1 with the list left as it is
Untrimmed(tp) == tp
\* lines 41-42: trackpoints[first_nonzero:]
Trimmed(tp) == SubSeq(tp, FirstNonzero(tp), Len(tp))

\* stage 2, lines 47-50: the change points among the first n samples
RECURSIVE ChangesUpTo(_, _)
ChangesUpTo(tp, n) ==
    IF n = 1 THEN <<1>>
    ELSE LET changes == ChangesUpTo(tp, n - 1)
         IN IF FracLess(tp[changes[Len(changes)]].distance_m, tp[n].distance_m)
            THEN Append(changes, n)
            ELSE changes

Changes(tp) == ChangesUpTo(tp, Len(tp))

\* line 70 with d_end for d_end - d_start
InterpolateToEnd(d_start, d_end, t_start, t_end, t) ==
    LET p == t - t_start
        q == t_end - t_start
    IN <<d_start[1] * q * d_end[2] + p * d_end[1] * d_start[2],
         q * d_end[2] * d_start[2]>>
\* line 70: d_start + frac * (d_end - d_start), frac = (t - t_start) / dt
Interpolate(d_start, d_end, t_start, t_end, t) ==
    LET p == t - t_start
        q == t_end - t_start
    IN <<d_start[1] * q * d_end[2] + p * (d_end[1] * d_start[2] - d_start[1] * d_end[2]),
         q * d_end[2] * d_start[2]>>

\* lines 55-70: a copy of the samples, those strictly between two change
\* points a positive time apart with the interpolated distance
Interpolated(tp) ==
    LET changes == Changes(tp)
        Within(seg, j) == /\ changes[seg] < j
                          /\ j < changes[seg + 1]
                          /\ tp[changes[seg + 1]].time - tp[changes[seg]].time > 0
    IN [j \in 1..Len(tp) |->
          IF \E seg \in 1..(Len(changes) - 1) : Within(seg, j)
          THEN LET seg == CHOOSE g \in 1..(Len(changes) - 1) : Within(g, j)
                   i_start == changes[seg]
                   i_end == changes[seg + 1]
               IN [tp[j] EXCEPT !.distance_m =
                      Interpolate(tp[i_start].distance_m, tp[i_end].distance_m,
                                  tp[i_start].time, tp[i_end].time, tp[j].time)]
          ELSE tp[j]]

\* line 77 with > for >=
KeepsAfter(gap) == gap > INTERVAL
\* stage 3, line 77: tp["time"].timestamp() - last_ts >= interval
KeepsAt(gap) == gap >= INTERVAL

\* lines 74-79: the indices kept among the first n samples
RECURSIVE KeptUpTo(_, _)
KeptUpTo(res, n) ==
    IF n = 1 THEN <<1>>
    ELSE LET kept == KeptUpTo(res, n - 1)
         IN IF KeepsAt(res[n].time - res[kept[Len(kept)]].time)
            THEN Append(kept, n)
            ELSE kept

\* stage 3 without lines 80-81
WithoutLast(kept, n) == kept
\* lines 80-81: the last sample is kept whatever its time
WithLast(kept, n) == IF kept[Len(kept)] # n THEN Append(kept, n) ELSE kept

Downsampled(res) ==
    LET kept == WithLast(KeptUpTo(res, Len(res)), Len(res))
    IN [i \in 1..Len(kept) |-> res[kept[i]]]

\* lines 85-91: the speed of every sample but the first from the distance
\* and the time since the sample before it, (dd / dt) * 3.6, left as it is
\* when no time has passed; the first sample is given that of the second
Respeeded(res) ==
    LET later == [i \in 1..Len(res) |->
                    IF i > 1 /\ res[i].time - res[i - 1].time > 0
                    THEN LET dt == res[i].time - res[i - 1].time
                             a == res[i].distance_m
                             b == res[i - 1].distance_m
                         IN [res[i] EXCEPT !.speed_kmh =
                                <<(a[1] * b[2] - b[1] * a[2]) * 36, a[2] * b[2] * dt * 10>>]
                    ELSE res[i]]
    IN [later EXCEPT ![1].speed_kmh = IF Len(res) > 1 THEN later[2].speed_kmh ELSE Whole(0)]

\* a call of _smooth_trackpoints with each of the lists
SmoothInit ==
    /\ TInit(0) /\ utc_now = NoClock /\ UInit /\ CInit
    /\ s_input \in SmoothInputs(MaxSamples, LongSamples)
    /\ s_pc = "trim"
    /\ s_trackpoints = s_input
    /\ s_result = <<>>
    /\ s_tcx = NoTcx

\* return of the list given
Returns(list) ==
    /\ s_result' = list
    /\ s_pc' = "returned"

\* lines 32-44
TrimLeadingZeros ==
    /\ s_pc = "trim"
    /\ IF Len(s_trackpoints) < 2
       THEN Returns(s_trackpoints) /\ UNCHANGED s_trackpoints
       ELSE LET tp == Trimmed(s_trackpoints)
            IN /\ s_trackpoints' = tp
               /\ IF Len(tp) < 2
                  THEN Returns(tp)
                  ELSE s_pc' = "interpolate" /\ UNCHANGED s_result
    /\ UNCHANGED <<s_input, s_tcx, tvars, uvars, cvars>>

\* lines 46-70
InterpolateJumps ==
    /\ s_pc = "interpolate"
    /\ IF Len(Changes(s_trackpoints)) < 2
       THEN Returns(s_trackpoints)
       ELSE /\ s_result' = Interpolated(s_trackpoints)
            /\ s_pc' = "downsample"
    /\ UNCHANGED <<s_input, s_trackpoints, s_tcx, tvars, uvars, cvars>>

\* lines 72-82
Downsample ==
    /\ s_pc = "downsample"
    /\ s_result' = Downsampled(s_result)
    /\ s_pc' = "speeds"
    /\ UNCHANGED <<s_input, s_trackpoints, s_tcx, tvars, uvars, cvars>>

\* lines 84-93
RecalculateSpeed ==
    /\ s_pc = "speeds"
    /\ Returns(Respeeded(s_result))
    /\ UNCHANGED <<s_input, s_trackpoints, s_tcx, tvars, uvars, cvars>>

\* the activity types generate_tcx is given: those detect_activity_type
\* returns and those the options offer
ActivityTypes == {"Run", "Ride", "Walk", "Workout"}

\* generate_tcx with the activity type written as the sport
SportAsIs(activity_type) == activity_type
\* SPORT_MAP.get(activity_type, "Other"), lines 18-21 and 120
SportOf(activity_type) ==
    CASE activity_type = "Run" -> "Running"
      [] activity_type = "Ride" -> "Biking"
      [] OTHER -> "Other"

\* the greatest common divisor of a and b, b > 0
RECURSIVE GCD(_, _)
GCD(a, b) == IF a % b = 0 THEN b ELSE GCD(b, a % b)

\* a format of the kind f"{x:.1f}": the quotient n / d, not negative, as the
\* nearest whole number of units of which unit make 1 (a tie goes to the
\* even one, as it does for the floats that hold a tie exactly)
Rounded(n, d, unit) ==
    LET g == GCD(n, d)
        whole == (n \div g) \div (d \div g)
        rest == ((n \div g) % (d \div g)) * unit
        q == rest \div (d \div g)
        r == rest % (d \div g)
    IN whole * unit + (IF 2 * r > d \div g \/ (2 * r = d \div g /\ q % 2 = 1) THEN q + 1 ELSE q)

\* lines 144-151: the Trackpoint element of a sample: Time (_iso keeps the
\* whole seconds), DistanceMeters in tenths, Speed in ten-thousandths of a
\* metre per second (speed_kmh / 3.6)
TrackpointOf(tp) ==
    [time |-> tp.time,
     distance |-> Rounded(tp.distance_m[1], tp.distance_m[2], 10),
     speed |-> Rounded(tp.speed_kmh[1] * 10, tp.speed_kmh[2] * 36, 10000)]

\* generate_tcx, lines 119-158, once _smooth_trackpoints has returned
GenerateTcx(activity_type) ==
    /\ s_pc = "returned"
    /\ s_pc' = "encoded"
    /\ s_tcx' = [activity_type |-> activity_type,
                 sport |-> SportOf(activity_type),
                 track |-> [i \in 1..Len(s_result) |-> TrackpointOf(s_result[i])]]
    /\ UNCHANGED <<s_input, s_trackpoints, s_result, tvars, uvars, cvars>>

SmoothNext ==
    \/ TrimLeadingZeros
    \/ InterpolateJumps
    \/ Downsample
    \/ RecalculateSpeed
    \/ \E a \in ActivityTypes : GenerateTcx(a)

SmoothSpec == SmoothInit /\ [][SmoothNext]_vars

TypeOK ==
    /\ state \in {"idle", "recording", "uploading"}
    /\ Len(trackpoints) <= MaxPoints
    /\ start_time \in 0..MaxSessions
    /\ last_tcx_path \in 0..MaxSessions
    /\ last_active_age \in 0..IdleCap
    /\ session_end_age \in {NoEnd} \cup 0..COOLDOWN
    /\ consecutive_active \in 0..(SESSION_START_COUNT + MaxSessions)
    /\ retry.pc \in {"upload", "done"}
    /\ unsignalled \in {0, 1}
    /\ utc_now \in {NoClock} \cup 0..MaxEvents
    /\ last_summary.of \in 0..MaxSessions
    /\ encoded.of \in 0..MaxSessions
    /\ s_pc \in {"trim", "interpolate", "downsample", "speeds", "returned", "encoded"}
    /\ Len(s_result) <= Len(s_input)
    /\ u_pc \in {"idle", "token", "read", "submit", "poll", "retoken", "update"}
    /\ u_attempt \in {1, 2}
    /\ u_polls \in 0..MaxPolls
    /\ u_result \in Outcomes \cup {"running", "no call"}
    /\ u_expires_in \in Validities
    /\ u_access_token \in AccessTokens \cup {NoToken}
    /\ u_refresh_token \in RefreshTokens
    /\ u_persisted \in RefreshTokens
    /\ u_http \in {"none", "open"}
    /\ u_callbacks \in 0..2

\* ---------------------------------------------------------------- steps
\* the watchdog of task t finds the session idle for SESSION_IDLE_TIMEOUT
WatchdogEnd(t) ==
    /\ state = "recording"
    /\ IdleTimedOut(last_active_age)
    /\ WatchdogWake(t)

\* the inline check of _record_and_check_end finds it for event e
InlineEnd(e) ==
    /\ e.event_id = "update"
    /\ state = "recording"
    /\ IdleTimedOut(NewActive(e))
    /\ OnCoordinatorUpdate(e)

\* a task enters the durable write or an upload in this step
StartsIO == \E t \in TaskIds :
    /\ tasks'[t].pc \in {"write", "upload"}
    /\ tasks'[t].pc # tasks[t].pc

\* ---------------------------------------------------------------- claims

\* C1: while one _finish_and_upload is in progress, a further end-of-session
\* trigger (watchdog tick or inline check) is a no-op: it changes neither the
\* state nor the files, discards no samples and starts no encode or upload.
C1_EndIsIdempotent ==
    [][ ( /\ \E u \in TaskIds : Finishing(u)
          /\ \/ \E t \in TaskIds : WatchdogEnd(t)
             \/ \E e \in Events : InlineEnd(e) )
        => /\ state' = state
           /\ files' = files
           /\ Len(trackpoints') >= Len(trackpoints)
           /\ ~StartsIO ]_vars

\* C2: while an end-of-session upload is in flight the state is uploading.
C2_UploadingWhileInFlight ==
    \A t \in TaskIds : Finishing(t) /\ tasks[t].pc = "upload" => state = "uploading"

\* C3: the raw sample sequence is non-empty only while state = recording.
C3_SamplesOnlyWhileRecording ==
    trackpoints # <<>> => state = "recording"

C5_WatchdogEndReachesIdle ==
    [][ \A t \in TaskIds :
          tasks[t].kind = "watchdog" /\ Finishing(t) /\ IsFree(t)'
          => state' = "idle" ]_vars

\* C6: while idle and outside the cooldown, an update event starts a recording
\* exactly when it is the third consecutive event with elapsed-time > 0, and an
\* event without elapsed-time > 0 resets the counter to 0.
C6_StartsOnThirdEvent ==
    [][ \A e \in Events :
          ( /\ e.event_id = "update"
            /\ state = "idle"
            /\ ~InCooldown
            /\ OnCoordinatorUpdate(e) )
          => /\ (state' = "recording")
                  <=> (Qualifies(e) /\ idle_run = SESSION_START_COUNT - 1)
             /\ ~Qualifies(e) => consecutive_active' = 0 ]_vars

\* C7: no recording starts within COOLDOWN seconds of a session end.
C7_CooldownAfterEveryEnd ==
    [][ state = "idle" /\ state' = "recording" => since_last_end = NoEnd ]_vars

\* C8: a recording that ends with fewer than SESSION_MIN_POINTS samples gives
\* no file and no upload and the state goes straight to idle; one that ends
\* with at least SESSION_MIN_POINTS samples is encoded and its write is issued
\* (on_disconnect: done, when the write succeeds).
C8_EndOf(n, sync, ok) ==
    IF n < SESSION_MIN_POINTS
    THEN /\ state' = "idle"
         /\ files' = files
         /\ ~StartsIO
    ELSE start_time # NoPath
         => /\ last_tcx_path' = start_time
            /\ IF sync
               THEN ok = "ok" => files'[start_time] = "complete" /\ state' = "idle"
               ELSE \E t \in TaskIds : /\ tasks'[t].pc = "write"
                                       /\ tasks'[t].path = start_time
                                       /\ tasks[t].pc # "write"

C9_UploadOnlyCompleteFile ==
    \A t \in TaskIds : tasks[t].pc = "upload" => tasks[t].read = "complete"

\* C10: when the durable write of a finished session fails, the state is idle
\* afterwards (asynchronous end of session and on_disconnect alike).
C10_WriteFailureReturnsToIdle ==
    [][ ( \/ \E t \in TaskIds : WriteFails(t)
          \/ \E r \in WriteResults \ {"ok"} :
               /\ state = "recording"
               /\ FinishRecording(trackpoints) = "encoded"
               /\ OnDisconnect(r) )
        => state' = "idle" ]_vars

\* C11: when upload returns None for a duplicate the status polls reported,
\* the caller deletes the file (_do_upload for the end-of-session and the
\* manual upload, upload_pending for the retry pass).
C11_DuplicateDeletesFile ==
    [][ /\ \A t \in TaskIds :
             UploadReturns(t, "duplicate") => files'[tasks[t].path] = "absent"
        /\ PendingReturns("duplicate") => files'[Head(retry.todo)] = "absent" ]_vars

\* C12: when upload returns None for another processing error or for the end
\* of the polls, no caller deletes a file.
C12_ErrorOrTimeoutKeepsFile ==
    [][ \A o \in {"error", "timeout"} :
          /\ \A t \in TaskIds : UploadReturns(t, o) => files' = files
          /\ PendingReturns(o) => files' = files ]_vars

\* C13: when upload raises, no caller deletes a file.
C13_ExceptionKeepsFile ==
    [][ /\ \A t \in TaskIds : UploadReturns(t, "raise") => files' = files
        /\ PendingReturns("raise") => files' = files ]_vars

\* the retry pass has stopped at an upload that raised, and the file it was
\* attempting is still there
C13_Witness ==
    /\ retry.pc = "done"
    /\ retry.todo # <<>>
    /\ files[Head(retry.todo)] = "complete"

\* C14: when upload returns an activity URL the caller removes the file, and
\* _do_upload stops offering it for a manual upload.
C14_UrlRemovesFile ==
    [][ /\ \A t \in TaskIds :
             UploadReturns(t, "url") => /\ files'[tasks[t].path] = "absent"
                                        /\ last_tcx_path' = NoPath
        /\ PendingReturns("url") => files'[Head(retry.todo)] = "absent" ]_vars

\* an upload of a completely written file has returned a URL: the file is
\* gone and no file is offered, as a second upload of it, still in flight, shows
C14_Witness ==
    /\ last_tcx_path = NoPath
    /\ \E t \in TaskIds : /\ tasks[t].pc = "upload"
                           /\ tasks[t].read = "complete"
                           /\ files[tasks[t].path] = "absent"

\* C15: on_disconnect while recording leaves the state idle with no upload
\* started and, with at least SESSION_MIN_POINTS samples, the file written
\* completely; in the other states it changes nothing.
C15_DisconnectFinishesSynchronously ==
    [][ \A r \in WriteResults : OnDisconnect(r) =>
          IF state = "recording"
          THEN /\ state' = "idle"
               /\ tasks' = tasks
               /\ Len(trackpoints) >= SESSION_MIN_POINTS =>
                     /\ last_tcx_path' # NoPath
                     /\ files'[last_tcx_path'] = "complete"
          ELSE UNCHANGED <<state, recvars, session_end_age, last_tcx_path,
                           files, tasks>> ]_vars

\* C16: upload_pending attempts the orphaned files in ascending order of
\* their names; when an upload fails (it raises, or the processing ends with
\* an error that is no duplicate, or with no final status) the pass is over,
\* no further file is attempted, and the failed file and the later ones stay.
C16_RetryPassStopsAtFirstFailure ==
    /\ [](retry.tried = SubSeq(Sorted(OrphanPaths), 1, Len(retry.tried)))
    /\ [][ retry.pc = "done" => retry' = retry ]_vars
    /\ [][ \A o \in {"raise", "error", "timeout"} : PendingReturns(o) =>
              /\ retry'.pc = "done"
              /\ retry'.tried = retry.tried
              /\ \A i \in 1..Len(retry.todo) :
                    files'[retry.todo[i]] = files[retry.todo[i]] ]_vars

\* C17: the listeners are notified once for every change of the session
\* state and not at all when _set_state is given the value the state has:
\* the changes of the state and the notifications never differ in number.
C17_NotifiedOncePerChange == unsignalled = 0

\* two uploads are in flight: the state changed to uploading for the first
\* and was set to uploading again, with no change, for the second
C17_Witness ==
    /\ state = "uploading"
    /\ has_data
    /\ unsignalled = 0
    /\ \A t \in TaskIds : tasks[t].pc = "upload"

\* C18: a 401 for the first submission invalidates the token, refreshes it
\* once and submits the file once more; a 401 for the second submission ends
\* the call with the exception; one call of upload submits the file at most
\* twice and exchanges the token at most twice.
C18_One401Retry ==
    /\ [](u_submissions <= 2 /\ u_refreshes <= 2)
    /\ [][ SubmitReturns("401") =>
              IF u_attempt = 1
              THEN /\ ~u_token_ok'
                   /\ u_pc' = "retoken"
                   /\ u_refreshes' = u_refreshes + 1
                   /\ u_result' = "running"
              ELSE /\ u_pc' = "idle"
                   /\ u_result' = "raise" ]_vars
    /\ [][ u_pc = "retoken" /\ (\E r \in Responses : TokenReturns("ok", r)) =>
              /\ u_pc' = "read"
              /\ u_attempt' = 2 ]_vars

\* the second submission of a call was answered 401 and the call has raised
C18_Witness ==
    /\ u_answer = "401"
    /\ u_attempt = 2
    /\ u_submissions = 2
    /\ u_refreshes = 2
    /\ u_pc = "idle"
    /\ u_result = "raise"

C20_PollingIsBounded ==
    /\ [](u_polls <= MaxPolls)
    /\ [][ \A a \in {"activity", "duplicate", "error"} : PollReturns(a) =>
              /\ u_pc' # "poll"
              /\ u_polls' = u_polls ]_vars
    /\ [][ u_polls = MaxPolls /\ PollReturns("pending") =>
              /\ u_pc' = "idle"
              /\ u_result' = "timeout" ]_vars
    /\ (u_pc # "idle") ~> (u_pc = "idle")

\* MaxPolls polls found no final status and upload has returned none
C20_Witness ==
    /\ u_polls = MaxPolls
    /\ u_answer = "pending"
    /\ u_pc = "idle"
    /\ u_result = "timeout"

\* C21: the metadata PUT is sent only when a status poll has reported an
\* activity id, once in a call of upload (its answer ends the call), every
\* URL returned follows it, and an answer with a status other than 200
\* still makes upload return the URL.
C21_PatchAfterActivityId ==
    /\ [][ u_pc' = "update" /\ u_pc # "update" =>
              u_pc = "poll" /\ u_answer' = "activity" ]_vars
    /\ [][ \A a \in UpdateAnswers : UpdateReturns(a) => u_pc' = "idle" ]_vars
    /\ [][ u_result' = "url" /\ u_pc # "idle" => u_pc = "update" ]_vars
    /\ [][ UpdateReturns("500") => u_result' = "url" ]_vars

\* the PUT was answered with status 500 and upload has returned the URL
C21_Witness ==
    /\ u_answer = "500"
    /\ u_pc = "idle"
    /\ u_result = "url"

\* C22: _ensure_token at the start of upload sends nothing when the access
\* token has more than TOKEN_MARGIN seconds left, and else makes one token
\* exchange, whose good answer replaces the access token and the expiry.
C22_RefreshOnlyWhenStale ==
    /\ [][ Upload =>
              IF u_expires_in > TOKEN_MARGIN
              THEN /\ u_pc' = "read"
                   /\ u_refreshes' = 0
                   /\ u_http' = u_http
              ELSE /\ u_pc' = "token"
                   /\ u_refreshes' = 1 ]_vars
    /\ [][ \A a \in TokenAnswers, r \in Responses : TokenReturns(a, r) =>
              /\ u_pc' \notin {"token", "retoken"}
              /\ u_refreshes' = u_refreshes
              /\ a = "ok" => /\ u_access_token' = r.access
                             /\ u_expires_in' = r.lifetime ]_vars

\* upload was called with exactly TOKEN_MARGIN seconds left and exchanges
\* the token
C22_Witness ==
    /\ u_pc = "token"
    /\ u_refreshes = 1
    /\ u_expires_in = TOKEN_MARGIN
    /\ u_access_token # NoToken

\* C23: a good answer to the token exchange whose refresh_token differs from
\* the one held replaces the one held and calls on_token_refresh once, with
\* the new value; an answer with the same refresh_token or with none calls
\* it not at all and leaves the one held.
C23_RotationPersistsOnce ==
    [][ \A a \in {"ok", "unsaved"}, r \in Responses : TokenReturns(a, r) =>
          IF r.refresh # NoToken /\ r.refresh # u_refresh_token
          THEN /\ u_refresh_token' = r.refresh
               /\ u_callbacks' = u_callbacks + 1
               /\ a = "ok" => u_persisted' = r.refresh
          ELSE /\ u_refresh_token' = u_refresh_token
               /\ u_callbacks' = u_callbacks
               /\ u_persisted' = u_persisted ]_vars

\* the refresh token was rotated and stored in the first exchange of a call
C23_Witness ==
    /\ u_pc = "read"
    /\ u_callbacks = 1
    /\ u_refresh_token = 2
    /\ u_persisted = 2

\* C24: when on_token_refresh raises, the call of upload ends with the
\* exception, submitting nothing further and returning no URL.
C24_PersistFailureSurfaces ==
    [][ \A r \in Responses : TokenReturns("unsaved", r) =>
          /\ u_pc' = "idle"
          /\ u_result' = "raise"
          /\ u_submissions' = u_submissions ]_vars

\* a rotated refresh token could not be stored and upload has raised
C24_Witness ==
    /\ u_answer = "unsaved"
    /\ u_pc = "idle"
    /\ u_result = "raise"
    /\ u_refresh_token # u_persisted

\* C25: once close has been called the client stays closed (no operation
\* makes a new one) and a call of upload ends with an error before any
\* request is sent.
C25_ClosedClientRefuses ==
    /\ [](u_closed => u_http = "none")
    /\ [][ u_closed /\ Upload => u_pc' = "idle" /\ u_result' = "raise" ]_vars

\* C26: in state recording every update event appends its one sample at the
\* end of the sequence (which an end found by the same event encodes or
\* discards at once); while a recording runs the sequence is that of the
\* events handled since its start, and what is encoded at its end is exactly
\* that sequence, under the start time of that recording.
C26_SamplesAreTheEventsObserved ==
    /\ [](state = "recording" /\ start_time # NoPath => trackpoints = observed)
    /\ [][ \A e \in SampleEvents : state = "recording" /\ OnCoordinatorUpdate(e) =>
              \/ trackpoints' = Append(trackpoints, Sample(e))
              \/ /\ encoded' # encoded
                 /\ encoded'.samples = Append(trackpoints, Sample(e))
              \/ /\ Len(trackpoints) + 1 < SESSION_MIN_POINTS
                 /\ trackpoints' = <<>> ]_vars
    /\ [][ encoded' # encoded =>
              /\ encoded'.of = start_time
              /\ encoded'.samples = observed' ]_vars

\* a recording was encoded: its first sample is that of the fourth event,
\* which reported energy, its tenth that of the thirteenth
C26_Witness ==
    /\ encoded.of = 1
    /\ Len(encoded.samples) = SESSION_MIN_POINTS
    /\ encoded.samples[1].time = SESSION_START_COUNT + 1
    /\ encoded.samples[1].calories # 0
    /\ encoded.samples[SESSION_MIN_POINTS].time = SESSION_START_COUNT + SESSION_MIN_POINTS

\* C27: a sample appended after another one carries, for speed, distance and
\* energy, the value of its event, and the value of the sample before it
\* when the event has none.
C27_SampleCarriesLastObserved ==
    [][ \A e \in SampleEvents :
          ( /\ state = "recording"
            /\ trackpoints # <<>>
            /\ OnCoordinatorUpdate(e)
            /\ Len(trackpoints') = Len(trackpoints) + 1 ) =>
          LET new == trackpoints'[Len(trackpoints')]
              prev == trackpoints[Len(trackpoints)]
          IN /\ new.speed_kmh = IF e.speed # <<>> THEN e.speed[1] ELSE prev.speed_kmh
             /\ new.distance_m = IF e.distance # <<>> THEN e.distance[1] ELSE prev.distance_m
             /\ new.calories = IF e.calories # <<>> THEN e.calories[1] ELSE prev.calories ]_vars

\* C28: the cached summary is the one computed from the samples given to the
\* encoder of the recording finished last (their positive speeds, the
\* distance and the time of the last of them); every upload that _do_upload
\* starts, the manual one included, is given that summary; upload_last with
\* no file to offer starts no upload and changes no state.
C28_UploadUsesCachedSummary ==
    /\ [](encoded.of # NoPath =>
             /\ last_summary.of = encoded.of
             /\ last_summary.points = Len(encoded.samples)
             /\ last_summary.speeds = PositiveSpeeds(encoded.samples)
             /\ last_summary.total_distance_m = encoded.samples[Len(encoded.samples)].distance_m
             /\ last_summary.last_time = encoded.samples[Len(encoded.samples)].time)
    /\ [](encoded.of = NoPath => last_summary = NoSummary)
    /\ [][ \A t \in TaskIds : tasks'[t].pc = "upload" /\ tasks[t].pc # "upload" =>
              /\ tasks'[t].summary = last_summary
              /\ tasks'[t].summary.points >= SESSION_MIN_POINTS ]_vars
    /\ [][ UploadLast /\ (last_tcx_path = NoPath \/ files[last_tcx_path] = "absent") =>
              UNCHANGED <<state, tasks, files, last_summary>> ]_vars

\* a manual upload is in flight with the summary of the first recording,
\* whose samples are gone: ten samples, a distance and some speed
C28_Witness ==
    /\ trackpoints = <<>>
    /\ \E t \in TaskIds : /\ tasks[t].kind = "manual"
                           /\ tasks[t].pc = "upload"
                           /\ tasks[t].summary.of = 1
                           /\ tasks[t].summary.points = SESSION_MIN_POINTS
                           /\ tasks[t].summary.total_distance_m > 0
                           /\ tasks[t].summary.speeds[2] > 1
                           /\ tasks[t].summary.last_time = SESSION_START_COUNT + SESSION_MIN_POINTS

\* the input is already clean: distances strictly increasing by the same
\* amount, at least INTERVAL seconds from each sample to the next
Clean(tp) ==
    /\ \A i \in 2..Len(tp) : /\ FracLess(tp[i - 1].distance_m, tp[i].distance_m)
                             /\ tp[i].time - tp[i - 1].time >= INTERVAL
    /\ \A i \in 3..Len(tp) : tp[i].distance_m[1] - tp[i - 1].distance_m[1]
                                = tp[2].distance_m[1] - tp[1].distance_m[1]

SameDistances(out, tp) ==
    /\ Len(out) = Len(tp)
    /\ \A i \in 1..Len(tp) : FracEq(out[i].distance_m, tp[i].distance_m)

\* C29 as stated: for every clean input the output has the length and the
\* distances of the input.
C29_CleanInputUnchanged ==
    s_pc = "returned" /\ Clean(s_input) => SameDistances(s_result, s_input)

\* C29, amended: for every clean input whose first distance is above 0 the
\* output has the length and the distances of the input; for a clean input
\* of two or more samples whose first distance is 0 the output is without
\* that first sample and has the distances of the others.
C29_CleanInputUnchangedFromMotion ==
    s_pc = "returned" /\ Clean(s_input) =>
        IF Len(s_input) >= 2 /\ s_input[1].distance_m[1] = 0
        THEN SameDistances(s_result, Tail(s_input))
        ELSE SameDistances(s_result, s_input)

\* a clean input of three samples or more came back through all stages,
\* with its distances and with recomputed speeds
C29_Witness ==
    /\ s_pc = "returned"
    /\ Clean(s_input)
    /\ Len(s_input) >= 3
    /\ s_input[1].distance_m[1] > 0
    /\ s_input[2].time = INTERVAL
    /\ SameDistances(s_result, s_input)
    /\ s_result[2].speed_kmh # s_input[2].speed_kmh

\* twelve samples one second apart
EverySecond(tp) ==
    /\ Len(tp) = 12
    /\ \A i \in 2..Len(tp) : tp[i].time - tp[i - 1].time = 1

IsLastOf(sample, tp) ==
    /\ sample.time = tp[Len(tp)].time
    /\ FracEq(sample.distance_m, tp[Len(tp)].distance_m)

\* C30 as stated: twelve samples one second apart come back as at most three
\* samples, the last of them the last one given.
C30_TwelveToThree ==
    s_pc = "returned" /\ EverySecond(s_input) =>
        /\ Len(s_result) <= 3
        /\ IsLastOf(s_result[Len(s_result)], s_input)

\* C30, amended: stage 3 keeps four of twelve samples one second apart, the
\* first, the sixth, the eleventh and the last; of twelve samples given one
\* second apart the smoother returns at most four when the samples left by
\* stage 1 have two change points or more, otherwise all that stage 1 left,
\* and what it returns always ends with the last sample given.
C30_TwelveToFour ==
    /\ [][ Downsample /\ EverySecond(s_result) =>
              /\ Len(s_result') = 4
              /\ \A i \in 1..3 : s_result'[i] = s_result[5 * i - 4]
              /\ s_result'[4] = s_result[12] ]_vars
    /\ [](s_pc = "returned" /\ EverySecond(s_input) =>
              /\ IF Len(Changes(Trimmed(s_input))) >= 2
                 THEN Len(s_result) <= 4
                 ELSE Len(s_result) = Len(Trimmed(s_input))
              /\ IsLastOf(s_result[Len(s_result)], s_input))

\* twelve samples one second apart, the first of them in motion, came back
\* as those of 0, 5, 10 and 11 seconds
C30_Witness ==
    /\ s_pc = "returned"
    /\ EverySecond(s_input)
    /\ s_input[1].distance_m[1] > 0
    /\ Len(s_result) = 4
    /\ s_result[3].time = 2 * INTERVAL
    /\ s_result[4].time = 11

\* sample k of the list is the first with a distance above 0
FirstInMotion(tp, k) ==
    /\ tp[k].distance_m[1] > 0
    /\ \A j \in 1..(k - 1) : tp[j].distance_m[1] = 0

\* C31: of an input with a sample of a distance above 0, the output starts
\* at the first such sample (its time and its distance) and holds none of
\* the samples before it.
C31_TrimsLeadingZeros ==
    s_pc = "returned" =>
        \A k \in 1..Len(s_input) : FirstInMotion(s_input, k) =>
            /\ s_result # <<>>
            /\ s_result[1].time = s_input[k].time
            /\ FracEq(s_result[1].distance_m, s_input[k].distance_m)
            /\ \A i \in 1..Len(s_result) : s_result[i].time >= s_input[k].time
            /\ Len(s_result) <= Len(s_input) - (k - 1)

\* an input with two leading samples of distance 0 came back from its third
\* sample on
C31_Witness ==
    /\ s_pc = "returned"
    /\ Len(s_input) = MaxSamples
    /\ FirstInMotion(s_input, 3)
    /\ s_result[1].time = s_input[3].time
    /\ Len(s_result) = 2

\* the samples are those of 0, 1, 2 and 3 seconds with the distances 10, 10,
\* 10 and 20
OneJump(tp) ==
    /\ Len(tp) = 4
    /\ \A i \in 1..4 : tp[i].time = i - 1
    /\ \A i \in 1..3 : FracEq(tp[i].distance_m, Whole(10))
    /\ FracEq(tp[4].distance_m, Whole(20))

\* i and j are consecutive change points of the list: the distance of j is
\* the first after i above that of i
ConsecutiveChanges(tp, i, j) ==
    /\ i < j
    /\ i \in {Changes(tp)[c] : c \in 1..Len(Changes(tp))}
    /\ FracLess(tp[i].distance_m, tp[j].distance_m)
    /\ \A k \in (i + 1)..(j - 1) : ~FracLess(tp[i].distance_m, tp[k].distance_m)

\* C32: stage 2 gives every sample strictly between two consecutive change
\* points a positive time apart the distance
\* d_start + (t - t_start) / (t_end - t_start) * (d_end - d_start) and leaves
\* the distance of every change point as it is; of the samples of 0, 1, 2, 3
\* seconds with distances 10, 10, 10, 20 those of 1 and 2 seconds get 40/3
\* and 50/3.
C32_InterpolatesBetweenChanges ==
    [][ InterpolateJumps /\ s_pc' = "downsample" =>
          LET tp == s_trackpoints
              out == s_result'
          IN /\ Len(out) = Len(tp)
             /\ \A i, j \in 1..Len(tp) :
                  ConsecutiveChanges(tp, i, j) /\ tp[j].time > tp[i].time =>
                    /\ out[i].distance_m = tp[i].distance_m
                    /\ out[j].distance_m = tp[j].distance_m
                    /\ \A k \in (i + 1)..(j - 1) :
                         \* out = d_i + (t_k - t_i) / (t_j - t_i) * (d_j - d_i),
                         \* the input distances being whole numbers
                         out[k].distance_m[1] * (tp[j].time - tp[i].time)
                           = out[k].distance_m[2]
                               * ( tp[i].distance_m[1] * (tp[j].time - tp[i].time)
                                   + (tp[k].time - tp[i].time)
                                       * (tp[j].distance_m[1] - tp[i].distance_m[1]) )
             /\ OneJump(tp) => /\ FracEq(out[2].distance_m, <<40, 3>>)
                               /\ FracEq(out[3].distance_m, <<50, 3>>) ]_vars

\* stage 2 has run on the samples 10, 10, 10, 20 of 0, 1, 2, 3 seconds
C32_Witness ==
    /\ s_pc = "downsample"
    /\ OneJump(s_input)
    /\ FracEq(s_result[2].distance_m, <<40, 3>>)
    /\ FracEq(s_result[4].distance_m, Whole(20))

\* C33: the document has the sport Running for the activity type Run, Biking
\* for Ride and Other for every other type, and one trackpoint for each
\* sample of the smoothed list, in the order of the list.
C33_SportAndTrack ==
    s_pc = "encoded" =>
        /\ s_tcx.activity_type = "Run" => s_tcx.sport = "Running"
        /\ s_tcx.activity_type = "Ride" => s_tcx.sport = "Biking"
        /\ s_tcx.activity_type \notin {"Run", "Ride"} => s_tcx.sport = "Other"
        /\ Len(s_tcx.track) = Len(s_result)
        /\ \A i \in 1..Len(s_result) :
             /\ s_tcx.track[i].time = s_result[i].time
             /\ (s_tcx.track[i].distance * s_result[i].distance_m[2]
                   - 10 * s_result[i].distance_m[1]) * 2 <= s_result[i].distance_m[2]
             /\ (10 * s_result[i].distance_m[1]
                   - s_tcx.track[i].distance * s_result[i].distance_m[2]) * 2
                  <= s_result[i].distance_m[2]

\* a walk of twelve samples was encoded: sport Other, four trackpoints, the
\* last that of 11 seconds
C33_Witness ==
    /\ s_pc = "encoded"
    /\ s_tcx.activity_type = "Walk"
    /\ s_tcx.sport = "Other"
    /\ Len(s_input) = 12
    /\ Len(s_tcx.track) = 4
    /\ s_tcx.track[4].time = 11
    /\ s_tcx.track[4].distance > 0

\* C34: a submission answered 409 ends the call of upload with None and
\* without an exception, the first submission and the one made after a 401
\* alike.
C34_ConflictIsBenign ==
    [][ SubmitReturns("409") =>
          /\ u_pc' = "idle"
          /\ u_result' = "conflict" ]_vars

\* C38: once a submission of a call of upload was accepted, the call submits
\* the file no more: the number of its submissions stays that of the
\* accepted one.
C38_NoSubmissionAfterAccepted ==
    u_accepted # 0 => u_submissions = u_accepted

\* C39: whenever no token exchange is in progress, the refresh token in
\* memory is the one the config entry holds.
C39_MemoryMatchesPersisted ==
    u_pc \notin {"token", "retoken"} => u_refresh_token = u_persisted

\* C35: a session is ended for inactivity, by the watchdog or by the inline
\* check, only when more than SESSION_IDLE_TIMEOUT seconds have passed since
\* the last progress.
C35_EndsOnlyAfterTimeout ==
    /\ [][ \A t \in TaskIds : WatchdogEnd(t) =>
              last_active_age > SESSION_IDLE_TIMEOUT ]_vars
    /\ [][ \A e \in Events : InlineEnd(e) =>
              NewActive(e) > SESSION_IDLE_TIMEOUT ]_vars

\* C36: upload_last in state recording leaves the state and the samples
\* collected so far as they are.
C36_ManualUploadKeepsRecording ==
    [][ state = "recording" /\ UploadLast =>
          /\ state' = "recording"
          /\ trackpoints' = trackpoints ]_vars

\* the watchdogs that are asleep in their loop
Watchdogs == {t \in TaskIds : tasks[t].kind = "watchdog" /\ tasks[t].pc = "sleep"}

\* C37: there is at most one watchdog at any time, and none is left of an
\* earlier recording when a recording starts.
C37_OneWatchdog ==
    /\ [](Cardinality(Watchdogs) <= 1)
    /\ [][ nsessions' # nsessions => Watchdogs = {} ]_vars

\* C40: at most one token exchange of the client is in flight at any time,
\* and no two exchanges in flight carry the same refresh token.
C40_OneExchangeInFlight ==
    \A c, d \in Callers :
        c # d /\ c_pc[c] = "exchange" => /\ c_pc[d] # "exchange"
                                         /\ c_sent[d] # c_sent[c]
====
